---- MODULE Spec2Model ----
(***************************************************************************)
(* The history/snapshot subsystem of DataSnap: HistoryTracker              *)
(* (app/backend/history_tracker.py), the Flask configuration that holds    *)
(* the current table (app/backend/app.py) and the routes that read or      *)
(* replace the current table (app/backend/api/*.py).                       *)
(*                                                                         *)
(* Tables are Python objects: a reference (a positive number) names an     *)
(* object of the heap and the heap maps it to the table's content.  Two    *)
(* references are aliases when they are the same number; DataFrame.copy()  *)
(* allocates a new object with the same content.                           *)
(*                                                                         *)
(* A method or a route handler is an operator on the process state st: it  *)
(* yields the state it leaves (st), what it answers (ret, or the HTTP      *)
(* status) and the tracker calls it made (trace).  An action serves one    *)
(* request: it applies the handler to the current state.                   *)
(***************************************************************************)
EXTENDS Integers, Sequences, FiniteSets, TLC

\* ------------------------------------------------------------------ bounds
\* Number of distinct table contents the requests can produce.
MaxContent == 2
\* Number of uuid4() tokens drawn in one run.
MaxUuid == 6
\* Number of requests the server handles at the same time, one per thread.
NumThreads == 2

\* ------------------------------------------------------------------ values
\* Python's None, as a table reference, an identifier or a returned value.
NoneRef == 0
\* A request id that no uuid4() call ever returned.
Nonexistent == -1
Contents == 1..MaxContent

VARIABLES
    MAIN_DF,          \* app.config['MAIN_DF']: NoneRef or a reference
    HISTORY_TRACKER,  \* app.config['HISTORY_TRACKER']: "None" or "tracker"
    heap,             \* reference -> content, for every live table object
    history,          \* HistoryTracker.history
    snapshots,        \* HistoryTracker.snapshots: snapshot_id -> reference
    uuidCount,        \* number of uuid4() tokens drawn so far
    clock,            \* number of readings of datetime.now() so far
    held,             \* a table reference a client of the tracker keeps
    calls,            \* log_change calls since the ledger was last reset
    base,             \* entries the ledger held when it was last reset
    threads           \* per thread: where its handler is and its local table

vars == <<MAIN_DF, HISTORY_TRACKER, heap, history, snapshots, uuidCount, clock,
          held, calls, base, threads>>

\* The process state, as the record the operators below work on.
St ==
    [MAIN_DF |-> MAIN_DF, HISTORY_TRACKER |-> HISTORY_TRACKER, heap |-> heap,
     history |-> history, snapshots |-> snapshots, uuidCount |-> uuidCount,
     clock |-> clock, held |-> held]

\* ------------------------------------------------------------------ heap
EmptyDict == [k \in {} |-> NoneRef]

\* The reference of a newly allocated object: the lowest one not in use.
NewRef(hp) ==
    CHOOSE n \in 1..(Cardinality(DOMAIN hp) + 1) :
        n \notin DOMAIN hp /\ \A m \in 1..(n - 1) : m \in DOMAIN hp

\* A new object of content c: its reference and the heap that holds it.
NewTable(hp, c) ==
    LET n == NewRef(hp) IN [ref |-> n, heap |-> hp @@ (n :> c)]

\* copy as a bug would have it: the object itself is handed on.
copy_sameObject(hp, o) == [ref |-> o, heap |-> hp]

\* DataFrame.copy(): a new object with the content of o.
copy(hp, o) == NewTable(hp, hp[o])

\* dict[key] = value
DictSet(d, k, v) == [x \in DOMAIN d \cup {k} |-> IF x = k THEN v ELSE d[x]]

\* The content of the table a reference names (NoneRef for None).
ContentOf(hp, o) == IF o = NoneRef THEN NoneRef ELSE hp[o]

\* The elements of a set of numbers, in increasing order.
RECURSIVE SortedSeq(_)
SortedSeq(S) ==
    IF S = {} THEN <<>>
    ELSE LET m == CHOOSE x \in S : \A y \in S : x <= y
         IN  <<m>> \o SortedSeq(S \ {m})

\* When a call returns, the objects nothing refers to any more are freed.
\* A reference is an address: only which references are equal matters, so
\* the live objects are numbered anew in a fixed order (the current table,
\* the table a client keeps, the snapshots by snapshot id).
Collect(st) ==
    LET keys == SortedSeq(DOMAIN st.snapshots)
        refs == <<st.MAIN_DF, st.held>> \o [i \in 1..Len(keys) |-> st.snapshots[keys[i]]]
        First(o) == CHOOSE i \in 1..Len(refs) :
                        refs[i] = o /\ \A j \in 1..(i - 1) : refs[j] # o
        Rank(o) == IF o = NoneRef THEN NoneRef
                   ELSE Cardinality({refs[j] : j \in 1..First(o)} \ {NoneRef})
        live == {refs[i] : i \in 1..Len(refs)} \ {NoneRef}
    IN  [st EXCEPT !.MAIN_DF = Rank(@),
                   !.held = Rank(@),
                   !.snapshots = [k \in DOMAIN @ |-> Rank(@[k])],
                   !.heap = [n \in 1..Cardinality(live) |->
                                st.heap[CHOOSE o \in live : Rank(o) = n]]]

\* ------------------------------------------------------------------ tracker
\* uuid4 as a bug would have it: the token is drawn once and used again.
uuid4_drawnOnce(u) == 1

\* str(uuid.uuid4()): a token no earlier call returned.
uuid4(u) == u + 1

\* datetime.now().isoformat(): the readings of a run served one request at
\* a time increase; the reading after k earlier ones is k + 1.
datetime_now(k) == k + 1

HasSnapshotId(entry) == "snapshot_id" \in DOMAIN entry

Ids(h) == {h[i].id : i \in 1..Len(h)}

\* Storing as a bug would have it: the store keeps the latest snapshot only.
StoreSnapshot_onlyLatest(s, snapshot_id, ref) == (snapshot_id :> ref)

\* Storing as a bug would have it: the snapshot is not kept.
StoreSnapshot_forgotten(s, snapshot_id, ref) == s

\* self.snapshots[snapshot_id] = <the copy>
StoreSnapshot(s, snapshot_id, ref) == DictSet(s, snapshot_id, ref)

\* Appending as a bug would have it: the entry goes to the front.
AppendEntry_atFront(h, entry) == <<entry>> \o h

\* self.history.append(entry)
AppendEntry(h, entry) == Append(h, entry)

\* log_change as a bug would have it: every entry gets a snapshot_id, also
\* when there is no table to store.
log_change_snapshotIdAlways(st, action, description, data_snapshot) ==
    LET id == uuid4(st.uuidCount)
        snapshot_id == uuid4(st.uuidCount + 1)
        entry == [id |-> id, timestamp |-> datetime_now(st.clock), action |-> action,
                  description |-> description, snapshot_id |-> snapshot_id]
        cp == IF data_snapshot # NoneRef THEN copy(st.heap, data_snapshot)
              ELSE [ref |-> NoneRef, heap |-> st.heap]
    IN  [ret |-> id,
         trace |-> <<[call |-> "log_change", id |-> id,
                      table |-> ContentOf(st.heap, data_snapshot)]>>,
         st |-> [st EXCEPT !.history = AppendEntry(@, entry),
                           !.snapshots = IF data_snapshot # NoneRef
                                         THEN StoreSnapshot(@, snapshot_id, cp.ref)
                                         ELSE @,
                           !.heap = cp.heap,
                           !.uuidCount = @ + 2,
                           !.clock = @ + 1]]

\* HistoryTracker.log_change.  data_snapshot is a reference or NoneRef.
log_change(st, action, description, data_snapshot) ==
    LET id == uuid4(st.uuidCount)
        timestamp == datetime_now(st.clock)
        call == [call |-> "log_change", id |-> id,
                 table |-> ContentOf(st.heap, data_snapshot)]
    IN  IF data_snapshot # NoneRef
        THEN LET snapshot_id == uuid4(st.uuidCount + 1)
                 cp == copy(st.heap, data_snapshot)
                 entry == [id |-> id, timestamp |-> timestamp, action |-> action,
                           description |-> description, snapshot_id |-> snapshot_id]
             IN  [ret |-> id,
                  trace |-> <<call>>,
                  st |-> [st EXCEPT !.history = AppendEntry(@, entry),
                                    !.snapshots = StoreSnapshot(@, snapshot_id, cp.ref),
                                    !.heap = cp.heap,
                                    !.uuidCount = @ + 2,
                                    !.clock = @ + 1]]
        ELSE LET entry == [id |-> id, timestamp |-> timestamp, action |-> action,
                           description |-> description]
             IN  [ret |-> id,
                  trace |-> <<call>>,
                  st |-> [st EXCEPT !.history = AppendEntry(@, entry),
                                    !.uuidCount = @ + 1,
                                    !.clock = @ + 1]]

\* The failing log_change as a bug would have it: the entry is appended
\* before the table is copied, and stays when the copy raises.
log_change_copyRaises_entryAppended(st, action, description, data_snapshot) ==
    LET id == uuid4(st.uuidCount)
        entry == [id |-> id, timestamp |-> datetime_now(st.clock), action |-> action,
                  description |-> description, snapshot_id |-> uuid4(st.uuidCount + 1)]
    IN  [raised |-> TRUE,
         trace |-> <<>>,
         st |-> [st EXCEPT !.history = AppendEntry(@, entry),
                           !.uuidCount = @ + 2,
                           !.clock = @ + 1]]

\* HistoryTracker.log_change when data_snapshot.copy() raises (no memory for
\* the copy, say): the two ids are drawn and the time is read, the exception
\* leaves the method before entry['snapshot_id'] is set and before the
\* entry is appended.
log_change_copyRaises(st, action, description, data_snapshot) ==
    [raised |-> TRUE,
     trace |-> <<>>,
     st |-> [st EXCEPT !.uuidCount = @ + 2, !.clock = @ + 1]]

\* HistoryTracker.get_history: the list itself.
get_history(st) == st.history

\* HistoryTracker.get_snapshot: the stored object itself, or None.
get_snapshot(st, snapshot_id) ==
    IF snapshot_id \in DOMAIN st.snapshots THEN st.snapshots[snapshot_id] ELSE NoneRef

\* The scan as a bug would have it: the newest entry when none matches.
FindEntry_newestWhenMissing(h, history_id) ==
    IF \E i \in 1..Len(h) : h[i].id = history_id
    THEN CHOOSE i \in 1..Len(h) :
            h[i].id = history_id /\ \A j \in 1..(i - 1) : h[j].id # history_id
    ELSE Len(h)

\* The first entry of h whose id is history_id (0 when there is none).
FindEntry(h, history_id) ==
    IF \E i \in 1..Len(h) : h[i].id = history_id
    THEN CHOOSE i \in 1..Len(h) :
            h[i].id = history_id /\ \A j \in 1..(i - 1) : h[j].id # history_id
    ELSE 0

\* revert_to_version as a bug would have it: for an entry without
\* snapshot_id it falls back on a snapshot that is stored.
revert_to_version_anyStoredSnapshot(st, history_id) ==
    LET i == FindEntry(st.history, history_id)
        snapshot == IF i = 0 THEN NoneRef
                    ELSE IF HasSnapshotId(st.history[i])
                    THEN get_snapshot(st, st.history[i].snapshot_id)
                    ELSE IF DOMAIN st.snapshots = {} THEN NoneRef
                    ELSE st.snapshots[CHOOSE k \in DOMAIN st.snapshots : TRUE]
    IN  IF snapshot # NoneRef
        THEN LET cp == copy(st.heap, snapshot)
             IN  [ret |-> cp.ref, trace |-> <<>>, st |-> [st EXCEPT !.heap = cp.heap]]
        ELSE [ret |-> NoneRef, trace |-> <<>>, st |-> st]

\* revert_to_version as a bug would have it: it installs the copy as the
\* current table itself.
revert_to_version_installs(st, history_id) ==
    LET i == FindEntry(st.history, history_id) IN
    IF i = 0 \/ ~HasSnapshotId(st.history[i])
    THEN [ret |-> NoneRef, trace |-> <<>>, st |-> st]
    ELSE LET snapshot == get_snapshot(st, st.history[i].snapshot_id) IN
         IF snapshot # NoneRef
         THEN LET cp == copy(st.heap, snapshot)
              IN  [ret |-> cp.ref, trace |-> <<>>,
                   st |-> [st EXCEPT !.heap = cp.heap, !.MAIN_DF = cp.ref]]
         ELSE [ret |-> NoneRef, trace |-> <<>>, st |-> st]

\* revert_to_version as a bug would have it: the stored snapshot itself is
\* returned, not a copy of it.
revert_to_version_returnsStored(st, history_id) ==
    LET i == FindEntry(st.history, history_id) IN
    IF i = 0 \/ ~HasSnapshotId(st.history[i])
    THEN [ret |-> NoneRef, trace |-> <<>>, st |-> st]
    ELSE [ret |-> get_snapshot(st, st.history[i].snapshot_id), trace |-> <<>>,
          st |-> st]

\* HistoryTracker.revert_to_version: a copy of the snapshot of the entry, or
\* None.  ret is the returned reference, st the state with the copy in the
\* heap.
revert_to_version(st, history_id) ==
    LET i == FindEntry(st.history, history_id) IN
    IF i = 0 \/ ~HasSnapshotId(st.history[i])
    THEN [ret |-> NoneRef, trace |-> <<>>, st |-> st]
    ELSE LET snapshot == get_snapshot(st, st.history[i].snapshot_id) IN
         IF snapshot # NoneRef
         THEN LET cp == copy(st.heap, snapshot)
              IN  [ret |-> cp.ref, trace |-> <<>>, st |-> [st EXCEPT !.heap = cp.heap]]
         ELSE [ret |-> NoneRef, trace |-> <<>>, st |-> st]

\* clear_history as a bug would have it: the snapshots stay.
clear_history_keepsSnapshots(st) ==
    [ret |-> NoneRef,
     trace |-> <<[call |-> "clear_history"]>>,
     st |-> [st EXCEPT !.history = <<>>]]

\* HistoryTracker.clear_history.
clear_history(st) ==
    [ret |-> NoneRef,
     trace |-> <<[call |-> "clear_history"]>>,
     st |-> [st EXCEPT !.history = <<>>, !.snapshots = EmptyDict]]

\* HistoryTracker.export_history: a dict whose 'history' is the list itself.
export_history(st) == [history |-> st.history]

\* import_history as a bug would have it: the snapshots stay.
import_history_keepsSnapshots(st, history_data) ==
    LET list == IF "history" \in DOMAIN history_data THEN history_data.history
                ELSE <<>>
    IN  [ret |-> NoneRef,
         trace |-> <<[call |-> "import_history", len |-> Len(list)]>>,
         st |-> [st EXCEPT !.history = list]]

\* import_history as a bug would have it: as no snapshot is imported, the
\* snapshot_id of the entries is dropped.
import_history_dropsSnapshotIds(st, history_data) ==
    LET list == IF "history" \in DOMAIN history_data THEN history_data.history
                ELSE <<>>
        bare == [i \in 1..Len(list) |->
                    [id |-> list[i].id, timestamp |-> list[i].timestamp,
                     action |-> list[i].action, description |-> list[i].description]]
    IN  [ret |-> NoneRef,
         trace |-> <<[call |-> "import_history", len |-> Len(list)]>>,
         st |-> [st EXCEPT !.history = bare, !.snapshots = EmptyDict]]

\* HistoryTracker.import_history: history_data.get('history', []), and no
\* snapshot.
import_history(st, history_data) ==
    LET list == IF "history" \in DOMAIN history_data THEN history_data.history
                ELSE <<>>
    IN  [ret |-> NoneRef,
         trace |-> <<[call |-> "import_history", len |-> Len(list)]>>,
         st |-> [st EXCEPT !.history = list, !.snapshots = EmptyDict]]

\* ------------------------------------------------------------------ routes
\* What a request makes a handler do: run to its end, decline the parameters
\* (400) or raise inside its try block (500).
Outcomes == {"ok", "invalid", "raise"}

\* A request: the end it drives the handler to and, when the handler runs to
\* its end, the content c of the table it computes or loads.
Bodies ==
    {[outcome |-> "ok", c |-> c] : c \in Contents}
        \cup {[outcome |-> o, c |-> 1] : o \in {"invalid", "raise"}}

\* The requests to a handler that declines no parameter.
BodiesUnchecked == {b \in Bodies : b.outcome # "invalid"}

Response(status, st, trace) == [status |-> status, st |-> st, trace |-> trace]

\* A replacing handler as a bug would have it: it does not look whether a
\* table is loaded.
ReplaceTable_tableNotChecked(st, b) ==
    IF b.outcome = "invalid" THEN Response(400, st, <<>>)
    ELSE IF b.outcome = "raise" THEN Response(500, st, <<>>)
    ELSE LET df_new == NewTable(st.heap, b.c)
         IN  Response(200, [st EXCEPT !.MAIN_DF = df_new.ref, !.heap = df_new.heap],
                      <<>>)

\* A handler that computes a new table from the current one and installs it:
\* current_app.config['MAIN_DF'] = df_new.
ReplaceTable(st, b) ==
    IF st.MAIN_DF = NoneRef THEN Response(404, st, <<>>)
    ELSE IF b.outcome = "invalid" THEN Response(400, st, <<>>)
    ELSE IF b.outcome = "raise" THEN Response(500, st, <<>>)
    ELSE LET df_new == NewTable(st.heap, b.c)
         IN  Response(200, [st EXCEPT !.MAIN_DF = df_new.ref, !.heap = df_new.heap],
                      <<>>)

\* A handler that changes the current table object in place.
MutateTable(st, b) ==
    IF st.MAIN_DF = NoneRef THEN Response(404, st, <<>>)
    ELSE IF b.outcome = "invalid" THEN Response(400, st, <<>>)
    ELSE IF b.outcome = "raise" THEN Response(500, st, <<>>)
    ELSE Response(200, [st EXCEPT !.heap[st.MAIN_DF] = b.c], <<>>)

\* POST /clean/handle-missing
handle_missing_values(st, b) == ReplaceTable(st, b)

\* POST /clean/remove-duplicates
remove_duplicates(st, b) == ReplaceTable(st, b)

\* POST /clean/handle-outliers
handle_outliers(st, b) == ReplaceTable(st, b)

\* POST /clean/string-ops
string_operations(st, b) == ReplaceTable(st, b)

\* POST /clean/find-replace
find_and_replace(st, b) == ReplaceTable(st, b)

\* POST /clean/validate-emails
validate_emails(st, b) == ReplaceTable(st, b)

\* POST /transform/sort
sort_data(st, b) == ReplaceTable(st, b)

\* POST /transform/group-by
group_by_data(st, b) == ReplaceTable(st, b)

\* POST /transform/pivot
pivot_data(st, b) == ReplaceTable(st, b)

\* POST /transform/calculated-column: df[column_name] = df.eval(expression)
\* on the current table object itself.
add_calculated_column(st, b) == MutateTable(st, b)

\* POST /edit-cell: current_app.config['MAIN_DF'].at[row, column] = new_value
edit_cell(st, b) == MutateTable(st, b)

\* A handler that reads the current table and builds its answer from a copy
\* or from records of it.
ReadTable(st, b) ==
    IF st.MAIN_DF = NoneRef THEN Response(404, st, <<>>)
    ELSE IF b.outcome = "invalid" THEN Response(400, st, <<>>)
    ELSE IF b.outcome = "raise" THEN Response(500, st, <<>>)
    ELSE Response(200, st, <<>>)

\* POST /export
export_data(st, b) == ReadTable(st, b)

\* POST /session/save
save_session(st, b) == ReadTable(st, b)

\* POST /upload as a bug would have it: the handler that installs the table
\* also puts a tracker into the configuration.
upload_chunked_file_configuresTracker(st, lastChunk, b) ==
    IF b.outcome = "invalid" THEN Response(400, st, <<>>)
    ELSE IF b.outcome = "raise" THEN Response(500, st, <<>>)
    ELSE IF ~lastChunk THEN Response(200, st, <<>>)
    ELSE LET df == NewTable(st.heap, b.c)
         IN  Response(200, [st EXCEPT !.MAIN_DF = df.ref, !.heap = df.heap,
                                      !.HISTORY_TRACKER = "tracker"], <<>>)

\* POST /upload as a bug would have it: a new dataset starts a new history.
upload_chunked_file_clearsHistory(st, lastChunk, b) ==
    IF b.outcome = "invalid" THEN Response(400, st, <<>>)
    ELSE IF b.outcome = "raise" THEN Response(500, st, <<>>)
    ELSE IF ~lastChunk THEN Response(200, st, <<>>)
    ELSE LET df == NewTable(st.heap, b.c)
         IN  Response(200, [st EXCEPT !.MAIN_DF = df.ref, !.heap = df.heap,
                                      !.history = <<>>, !.snapshots = EmptyDict],
                      <<>>)

\* POST /upload: a chunk that is not the last is stored; the last one makes
\* the handler load the reassembled file and install it.
upload_chunked_file(st, lastChunk, b) ==
    IF b.outcome = "invalid" THEN Response(400, st, <<>>)
    ELSE IF b.outcome = "raise" THEN Response(500, st, <<>>)
    ELSE IF ~lastChunk THEN Response(200, st, <<>>)
    ELSE LET df == NewTable(st.heap, b.c)
         IN  Response(200, [st EXCEPT !.MAIN_DF = df.ref, !.heap = df.heap], <<>>)

\* list[::-1]: a new list, the elements of list from the last to the first.
Reversed(list) == [i \in 1..Len(list) |-> list[Len(list) + 1 - i]]

\* GET /history as a bug would have it: history.reverse(), which reverses
\* the tracker's own list, and the list as the answer.
get_history_route_reversesInPlace(st) ==
    IF st.HISTORY_TRACKER = "None"
    THEN [status |-> 200, st |-> st, trace |-> <<>>, history |-> <<>>]
    ELSE [status |-> 200, st |-> [st EXCEPT !.history = Reversed(@)], trace |-> <<>>,
          history |-> Reversed(get_history(st))]

\* GET /history: the answer carries tracker.get_history()[::-1] as
\* "history", or [] when no tracker is configured.
get_history_route(st) ==
    [status |-> 200, st |-> st, trace |-> <<>>,
     history |-> IF st.HISTORY_TRACKER = "None" THEN <<>>
                 ELSE Reversed(get_history(st))]

\* The revert route as a bug would have it: the table is installed and no
\* change is logged.
revert_to_history_version_notLogged(st, history_id) ==
    IF st.HISTORY_TRACKER = "None" \/ st.MAIN_DF = NoneRef THEN Response(404, st, <<>>)
    ELSE IF history_id = NoneRef THEN Response(400, st, <<>>)
    ELSE LET r == revert_to_version(st, history_id)
             snapshot_df == r.ret
         IN  IF snapshot_df # NoneRef
             THEN Response(200, [r.st EXCEPT !.MAIN_DF = snapshot_df], <<>>)
             ELSE Response(404, st, <<>>)

\* The revert route as a bug would have it: the table it logs is df, the
\* table that was current when the request came in.
revert_to_history_version_logsOldTable(st, history_id) ==
    IF st.HISTORY_TRACKER = "None" \/ st.MAIN_DF = NoneRef THEN Response(404, st, <<>>)
    ELSE IF history_id = NoneRef THEN Response(400, st, <<>>)
    ELSE LET df == st.MAIN_DF
             r == revert_to_version(st, history_id)
             snapshot_df == r.ret
         IN  IF snapshot_df # NoneRef
             THEN LET lc == log_change(r.st, "Revert",
                                       "Reverted to state from an earlier action.", df)
                  IN  Response(200, [lc.st EXCEPT !.MAIN_DF = snapshot_df], lc.trace)
             ELSE Response(404, st, <<>>)

\* POST /history/revert with body {"id": history_id}
revert_to_history_version(st, history_id) ==
    IF st.HISTORY_TRACKER = "None" \/ st.MAIN_DF = NoneRef THEN Response(404, st, <<>>)
    ELSE IF history_id = NoneRef THEN Response(400, st, <<>>)
    ELSE LET r == revert_to_version(st, history_id)
             snapshot_df == r.ret
         IN  IF snapshot_df # NoneRef
             THEN LET lc == log_change([r.st EXCEPT !.MAIN_DF = snapshot_df],
                                       "Revert",
                                       "Reverted to state from an earlier action.",
                                       snapshot_df)
                  IN  Response(200, lc.st, lc.trace)
             ELSE Response(404, st, <<>>)

\* POST /session/load as a bug would have it: the history is not cleared
\* before the load is logged.
load_session_historyKept(st, b) ==
    IF b.outcome = "invalid" THEN Response(400, st, <<>>)
    ELSE IF b.outcome = "raise" THEN Response(500, st, <<>>)
    ELSE LET df == NewTable(st.heap, b.c)
             loaded == [st EXCEPT !.MAIN_DF = df.ref, !.heap = df.heap]
         IN  IF st.HISTORY_TRACKER = "None"
             THEN Response(200, loaded, <<>>)
             ELSE LET lc == log_change(loaded, "Session Load", "Loaded session file",
                                       df.ref)
                  IN  Response(200, lc.st, lc.trace)

\* POST /session/load
load_session(st, b) ==
    IF b.outcome = "invalid" THEN Response(400, st, <<>>)
    ELSE IF b.outcome = "raise" THEN Response(500, st, <<>>)
    ELSE LET df == NewTable(st.heap, b.c)
             loaded == [st EXCEPT !.MAIN_DF = df.ref, !.heap = df.heap]
         IN  IF st.HISTORY_TRACKER = "None"
             THEN Response(200, loaded, <<>>)
             ELSE LET cl == clear_history(loaded)
                      lc == log_change(cl.st, "Session Load", "Loaded session file",
                                       df.ref)
                  IN  Response(200, lc.st, cl.trace \o lc.trace)

\* POST /history/revert when the copy in log_change raises: the handler has
\* no try block, the table is installed already and the framework answers
\* 500.
revert_to_history_version_copyRaises(st, history_id) ==
    IF st.HISTORY_TRACKER = "None" \/ st.MAIN_DF = NoneRef THEN Response(404, st, <<>>)
    ELSE IF history_id = NoneRef THEN Response(400, st, <<>>)
    ELSE LET r == revert_to_version(st, history_id)
             snapshot_df == r.ret
         IN  IF snapshot_df # NoneRef
             THEN LET lc == log_change_copyRaises(
                                [r.st EXCEPT !.MAIN_DF = snapshot_df], "Revert",
                                "Reverted to state from an earlier action.", snapshot_df)
                  IN  Response(500, lc.st, lc.trace)
             ELSE Response(404, st, <<>>)

\* POST /session/load when the copy in log_change raises: the handler
\* catches the exception, logs a warning and answers 200.
load_session_copyRaises(st, b) ==
    IF b.outcome = "invalid" THEN Response(400, st, <<>>)
    ELSE IF b.outcome = "raise" THEN Response(500, st, <<>>)
    ELSE LET df == NewTable(st.heap, b.c)
             loaded == [st EXCEPT !.MAIN_DF = df.ref, !.heap = df.heap]
         IN  IF st.HISTORY_TRACKER = "None"
             THEN Response(200, loaded, <<>>)
             ELSE LET cl == clear_history(loaded)
                      lc == log_change_copyRaises(cl.st, "Session Load",
                                                  "Loaded session file", df.ref)
                  IN  Response(200, lc.st, cl.trace \o lc.trace)

\* ------------------------------------------------------------------ state
\* The threads of the server, and a thread that handles no request: pc is
\* where its handler is, op the route it runs, df the handler's local table
\* (df_cleaned, snapshot_df).
Threads == 1..NumThreads

Idle == [pc |-> "idle", op |-> "none", df |-> NoneRef]

\* app.py: the configuration at start-up; HistoryTracker.__init__.  Whether
\* a deployment puts a HistoryTracker into the configuration is its choice.
Init ==
    /\ MAIN_DF = NoneRef
    /\ HISTORY_TRACKER \in {"None", "tracker"}
    /\ heap = EmptyDict
    /\ history = <<>>
    /\ snapshots = EmptyDict
    /\ uuidCount = 0
    /\ clock = 0
    /\ held = NoneRef
    /\ calls = <<>>
    /\ base = 0
    /\ threads = [t \in Threads |-> Idle]

\* The record of the log_change calls after the tracker calls of `trace`:
\* a clear or an import starts it anew.
RECURSIVE Track(_, _)
Track(g, trace) ==
    IF trace = <<>> THEN g
    ELSE LET c == Head(trace)
             g1 == IF c.call = "log_change"
                   THEN [g EXCEPT !.calls = Append(@, [id |-> c.id, table |-> c.table])]
                   ELSE IF c.call = "import_history"
                   THEN [calls |-> <<>>, base |-> c.len]
                   ELSE [calls |-> <<>>, base |-> 0]
         IN  Track(g1, Tail(trace))

\* The state becomes what the call leaves, as long as the run has tokens.
Serve(call) ==
    \E r \in {call} :
    \E s \in {IF r.st = St THEN St ELSE Collect(r.st)} :
    \E g \in {Track([calls |-> calls, base |-> base], r.trace)} :
        /\ s.uuidCount <= MaxUuid
        /\ MAIN_DF' = s.MAIN_DF
        /\ HISTORY_TRACKER' = s.HISTORY_TRACKER
        /\ heap' = s.heap
        /\ history' = s.history
        /\ snapshots' = s.snapshots
        /\ uuidCount' = s.uuidCount
        /\ clock' = s.clock
        /\ held' = s.held
        /\ calls' = g.calls
        /\ base' = g.base
        /\ threads' = threads

\* Every id a caller can name: none, one that was never issued, any token
\* issued so far (the ids of dropped entries and the snapshot ids too) and
\* the ids of the ledger.
AllIds == {NoneRef, Nonexistent} \cup 1..uuidCount \cup Ids(history)

\* The ids the requests of a run name: none, one that was never issued,
\* those of the ledger.
RequestIds == {NoneRef, Nonexistent} \cup Ids(history)

\* The snapshot ids the callers of a run name: one that was never issued,
\* those the entries of the ledger carry.
SnapshotIds ==
    {Nonexistent} \cup {history[i].snapshot_id :
                          i \in {j \in 1..Len(history) : HasSnapshotId(history[j])}}

\* A ledger that another process exported: one entry, with the id of a
\* snapshot that process held.
ForeignHistory ==
    <<[id |-> -2, timestamp |-> 0, action |-> "Edit", description |-> "change",
       snapshot_id |-> -3]>>

\* What import_history is given: what export_history() returns now (a round
\* trip), a dict without 'history', the export of another process.
ImportInputs(st) ==
    {export_history(st), [status |-> "success"], [history |-> ForeignHistory]}

\* ------------------------------------------------------------------ tracker calls
\* tracker.log_change("Edit", "change", t), t a table the caller has or None.
LogChange(t) == Serve(log_change(St, "Edit", "change", t))

\* tracker.get_history()
GetHistory == Serve([st |-> St, trace |-> <<>>, ret |-> get_history(St)])

\* tracker.get_snapshot(snapshot_id); the caller keeps the returned table or
\* only looks at it.
GetSnapshot(snapshot_id, keep) ==
    LET o == get_snapshot(St, snapshot_id)
    IN  Serve([st |-> IF keep THEN [St EXCEPT !.held = o] ELSE St,
               trace |-> <<>>, ret |-> o])

\* tracker.revert_to_version(history_id); the caller keeps the returned
\* table or only looks at it.
RevertToVersion(history_id, keep) ==
    LET r == revert_to_version(St, history_id)
    IN  Serve(IF keep THEN [r EXCEPT !.st.held = r.ret] ELSE r)

\* tracker.clear_history()
ClearHistory == Serve(clear_history(St))

\* tracker.export_history()
ExportHistory == Serve([st |-> St, trace |-> <<>>, ret |-> export_history(St)])

\* tracker.import_history(history_data)
ImportHistory(history_data) == Serve(import_history(St, history_data))

\* ------------------------------------------------------------------ clients
\* A client changes, in place, the table a tracker call returned to it.
MutateHeld(c) ==
    /\ held # NoneRef
    /\ Serve([st |-> [St EXCEPT !.heap[held] = c], trace |-> <<>>])

\* The client lets go of the table it kept.
DropHeld ==
    /\ held # NoneRef
    /\ Serve([st |-> [St EXCEPT !.held = NoneRef], trace |-> <<>>])

\* ------------------------------------------------------------------ specifications
\* The tracker's methods, called by a serving layer.
TrackerCalls ==
    \/ \E t \in {NoneRef, MAIN_DF} : LogChange(t)
    \/ GetHistory
    \/ \E id \in SnapshotIds : GetSnapshot(id, FALSE)
    \/ \E id \in RequestIds : RevertToVersion(id, FALSE)
    \/ ClearHistory
    \/ ExportHistory
    \/ \E d \in ImportInputs(St) : ImportHistory(d)

\* The routes.
Requests ==
    \/ \E b \in Bodies : Serve(upload_chunked_file(St, TRUE, b))
    \/ Serve(upload_chunked_file(St, FALSE, [outcome |-> "ok", c |-> 1]))
    \/ \E b \in Bodies : Serve(handle_missing_values(St, b))
    \/ \E b \in BodiesUnchecked : Serve(remove_duplicates(St, b))
    \/ \E b \in BodiesUnchecked : Serve(handle_outliers(St, b))
    \/ \E b \in BodiesUnchecked : Serve(string_operations(St, b))
    \/ \E b \in Bodies : Serve(find_and_replace(St, b))
    \/ \E b \in BodiesUnchecked : Serve(validate_emails(St, b))
    \/ \E b \in Bodies : Serve(sort_data(St, b))
    \/ \E b \in Bodies : Serve(group_by_data(St, b))
    \/ \E b \in Bodies : Serve(pivot_data(St, b))
    \/ \E b \in Bodies : Serve(add_calculated_column(St, b))
    \/ \E b \in Bodies : Serve(edit_cell(St, b))
    \/ \E b \in Bodies : Serve(load_session(St, b))
    \/ \E b \in Bodies : Serve(export_data(St, b))
    \/ \E b \in BodiesUnchecked : Serve(save_session(St, b))
    \/ Serve(get_history_route(St))
    \/ \E id \in RequestIds : Serve(revert_to_history_version(St, id))

\* The routes and the tracker's methods, each request served to its end
\* before the next one starts.
Next == TrackerCalls \/ Requests

Spec == Init /\ [][Next]_vars

\* The application as app.py starts it: the configuration holds no tracker.
\* A HistoryTracker object may exist and be called all the same; the routes
\* see only what the configuration holds.
InitApp == Init /\ HISTORY_TRACKER = "None"

SpecApp == InitApp /\ [][Next]_vars

\* A client of the tracker that keeps the tables the tracker returns to it
\* and may change them: it loads a table, logs it or a table it kept, asks
\* for snapshots and reverts.
NextClient ==
    \/ \E b \in Bodies : Serve(upload_chunked_file(St, TRUE, b))
    \/ \E t \in {MAIN_DF, held} : LogChange(t)
    \/ \E id \in SnapshotIds : GetSnapshot(id, TRUE)
    \/ \E id \in RequestIds : RevertToVersion(id, TRUE)
    \/ \E c \in Contents : MutateHeld(c)
    \/ DropHeld

SpecClient == Init /\ [][NextClient]_vars

\* ------------------------------------------------------------------ threads
\* The server handles each request in a thread of its own; the threads share
\* app.config and the tracker, and no handler of the table routes takes a
\* lock.  A step of a thread runs a handler up to its next access to the
\* shared state.  To tell which changes a table holds, the content of a
\* table is here the set of the threads whose change it holds.

\* A table was uploaded: the state before it is logged.
Uploaded ==
    [MAIN_DF |-> 1, HISTORY_TRACKER |-> "tracker", heap |-> (1 :> {}),
     history |-> <<>>, snapshots |-> EmptyDict, uuidCount |-> 0, clock |-> 0,
     held |-> NoneRef]

\* A tracker is configured, a table was uploaded and logged, and no request
\* is being handled.
InitThreads ==
    \E r \in {log_change(Uploaded, "Edit", "change", Uploaded.MAIN_DF)} :
        /\ MAIN_DF = r.st.MAIN_DF
        /\ HISTORY_TRACKER = r.st.HISTORY_TRACKER
        /\ heap = r.st.heap
        /\ history = r.st.history
        /\ snapshots = r.st.snapshots
        /\ uuidCount = r.st.uuidCount
        /\ clock = r.st.clock
        /\ held = r.st.held
        /\ calls = Track([calls |-> <<>>, base |-> 0], r.trace).calls
        /\ base = 0
        /\ threads = [t \in Threads |-> Idle]

\* handle_missing_values up to its try block: df = config.get('MAIN_DF'),
\* df_cleaned = df.copy(), and the cleaning, which works on df_cleaned.
HandleMissingRead(t) ==
    /\ threads[t].pc = "idle"
    /\ MAIN_DF # NoneRef
    /\ \E df_cleaned \in {NewTable(heap, heap[MAIN_DF] \cup {t})} :
          /\ heap' = df_cleaned.heap
          /\ threads' = [threads EXCEPT ![t] = [pc |-> "cleaned",
                                                op |-> "handle_missing_values",
                                                df |-> df_cleaned.ref]]
    /\ UNCHANGED <<MAIN_DF, HISTORY_TRACKER, history, snapshots, uuidCount, clock,
                   held, calls, base>>

\* handle_missing_values: current_app.config['MAIN_DF'] = df_cleaned, and
\* the answer.
HandleMissingInstall(t) ==
    /\ threads[t].pc = "cleaned"
    /\ MAIN_DF' = threads[t].df
    /\ threads' = [threads EXCEPT ![t].pc = "done"]
    /\ UNCHANGED <<HISTORY_TRACKER, heap, history, snapshots, uuidCount, clock,
                   held, calls, base>>

\* revert_to_history_version up to snapshot_df =
\* tracker.revert_to_version(history_id); without a snapshot it answers 404.
RevertLookup(t, history_id) ==
    /\ threads[t].pc = "idle"
    /\ HISTORY_TRACKER = "tracker"
    /\ MAIN_DF # NoneRef
    /\ \E r \in {revert_to_version(St, history_id)} :
          /\ heap' = r.st.heap
          /\ threads' = [threads EXCEPT ![t] =
                            [pc |-> IF r.ret # NoneRef THEN "found" ELSE "done",
                             op |-> IF r.ret # NoneRef THEN "revert_to_history_version"
                                    ELSE "none",
                             df |-> r.ret]]
    /\ UNCHANGED <<MAIN_DF, HISTORY_TRACKER, history, snapshots, uuidCount, clock,
                   held, calls, base>>

\* revert_to_history_version: current_app.config['MAIN_DF'] = snapshot_df
RevertInstall(t) ==
    /\ threads[t].pc = "found"
    /\ MAIN_DF' = threads[t].df
    /\ threads' = [threads EXCEPT ![t].pc = "installed"]
    /\ UNCHANGED <<HISTORY_TRACKER, heap, history, snapshots, uuidCount, clock,
                   held, calls, base>>

\* revert_to_history_version: tracker.log_change("Revert", ...,
\* snapshot_df), and the answer.
RevertLog(t) ==
    /\ threads[t].pc = "installed"
    /\ \E lc \in {log_change(St, "Revert", "Reverted to state from an earlier action.",
                             threads[t].df)} :
          /\ lc.st.uuidCount <= MaxUuid
          /\ heap' = lc.st.heap
          /\ history' = lc.st.history
          /\ snapshots' = lc.st.snapshots
          /\ uuidCount' = lc.st.uuidCount
          /\ clock' = lc.st.clock
          /\ calls' = Track([calls |-> calls, base |-> base], lc.trace).calls
    /\ threads' = [threads EXCEPT ![t].pc = "done"]
    /\ UNCHANGED <<MAIN_DF, HISTORY_TRACKER, held, base>>

\* edit_cell: current_app.config['MAIN_DF'].at[row, column] = new_value, on
\* the table object that is current at that moment, and the answer.
EditCellInPlace(t) ==
    /\ threads[t].pc = "idle"
    /\ MAIN_DF # NoneRef
    /\ heap' = [heap EXCEPT ![MAIN_DF] = @ \cup {t}]
    /\ threads' = [threads EXCEPT ![t] = [pc |-> "done", op |-> "edit_cell",
                                          df |-> NoneRef]]
    /\ UNCHANGED <<MAIN_DF, HISTORY_TRACKER, history, snapshots, uuidCount, clock,
                   held, calls, base>>

\* load_session up to current_app.config['MAIN_DF'] = df: the session file
\* is parsed into a new table, which is installed.  The table a thread loads
\* holds that thread's data.
LoadSessionInstall(t) ==
    /\ threads[t].pc = "idle"
    /\ \E df \in {NewTable(heap, {t})} :
          /\ heap' = df.heap
          /\ MAIN_DF' = df.ref
          /\ threads' = [threads EXCEPT ![t] =
                            [pc |-> IF HISTORY_TRACKER = "tracker" THEN "loaded"
                                    ELSE "done",
                             op |-> "load_session",
                             df |-> df.ref]]
    /\ UNCHANGED <<HISTORY_TRACKER, history, snapshots, uuidCount, clock, held, calls,
                   base>>

\* load_session: tracker.clear_history()
LoadSessionClear(t) ==
    /\ threads[t].pc = "loaded"
    /\ \E cl \in {clear_history(St)} :
          /\ history' = cl.st.history
          /\ snapshots' = cl.st.snapshots
          /\ calls' = Track([calls |-> calls, base |-> base], cl.trace).calls
          /\ base' = Track([calls |-> calls, base |-> base], cl.trace).base
    /\ threads' = [threads EXCEPT ![t].pc = "cleared"]
    /\ UNCHANGED <<MAIN_DF, HISTORY_TRACKER, heap, uuidCount, clock, held>>

\* load_session: tracker.log_change("Session Load", ..., df), and the
\* answer.
LoadSessionLog(t) ==
    /\ threads[t].pc = "cleared"
    /\ \E lc \in {log_change(St, "Session Load", "Loaded session file",
                             threads[t].df)} :
          /\ lc.st.uuidCount <= MaxUuid
          /\ heap' = lc.st.heap
          /\ history' = lc.st.history
          /\ snapshots' = lc.st.snapshots
          /\ uuidCount' = lc.st.uuidCount
          /\ clock' = lc.st.clock
          /\ calls' = Track([calls |-> calls, base |-> base], lc.trace).calls
    /\ threads' = [threads EXCEPT ![t].pc = "done"]
    /\ UNCHANGED <<MAIN_DF, HISTORY_TRACKER, held, base>>

\* Every thread handles one request; the steps of the threads interleave.
NextThreads ==
    \E t \in Threads :
        \/ EditCellInPlace(t)
        \/ HandleMissingRead(t)
        \/ HandleMissingInstall(t)
        \/ \E id \in RequestIds \ {NoneRef} : RevertLookup(t, id)
        \/ RevertInstall(t)
        \/ RevertLog(t)
        \/ LoadSessionInstall(t)
        \/ LoadSessionClear(t)
        \/ LoadSessionLog(t)

SpecThreads == InitThreads /\ [][NextThreads]_vars

\* What the request of thread t makes of a table of content c when it is
\* served alone: the cleaning or the edit adds its change, the revert yields
\* the content of the snapshot it asked for, the session load the table it
\* loaded.
ServedAlone(t, c) ==
    IF threads[t].op \in {"handle_missing_values", "edit_cell"} THEN c \cup {t}
    ELSE IF threads[t].op = "revert_to_history_version" THEN heap[threads[t].df]
    ELSE IF threads[t].op = "load_session" THEN {t}
    ELSE c

\* The contents the current table can have after the requests of the
\* threads T were served one after the other, in any order, from content c.
RECURSIVE SerialResults(_, _)
SerialResults(c, T) ==
    IF T = {} THEN {c}
    ELSE UNION {SerialResults(ServedAlone(t, c), T \ {t}) : t \in T}

\* ------------------------------------------------------------------ tracker threads
\* The threads of the server share one HistoryTracker and its methods take
\* no lock.  A step of a thread runs a method up to its next access to
\* self.history or self.snapshots; the thread keeps the entry it is building
\* in `entry`.

\* log_change up to the entry dict: the id is drawn and the clock is read.
\* data_snapshot is the current table or None.
LogChangeEntry(t, data_snapshot) ==
    /\ threads[t].pc = "idle"
    /\ uuidCount + 1 <= MaxUuid
    /\ threads' = [threads EXCEPT ![t] =
                      [pc |-> IF data_snapshot # NoneRef THEN "entry" ELSE "stored",
                       op |-> "log_change",
                       df |-> data_snapshot,
                       entry |-> [id |-> uuid4(uuidCount),
                                  timestamp |-> datetime_now(clock),
                                  action |-> "Edit",
                                  description |-> "change"]]]
    /\ uuidCount' = uuidCount + 1
    /\ clock' = clock + 1
    /\ UNCHANGED <<MAIN_DF, HISTORY_TRACKER, heap, history, snapshots, held, calls,
                   base>>

\* log_change: snapshot_id = str(uuid.uuid4()),
\* self.snapshots[snapshot_id] = data_snapshot.copy(),
\* entry['snapshot_id'] = snapshot_id
LogChangeStore(t) ==
    /\ threads[t].pc = "entry"
    /\ uuidCount + 1 <= MaxUuid
    /\ \E snapshot_id \in {uuid4(uuidCount)} :
       \E cp \in {copy(heap, threads[t].df)} :
          /\ heap' = cp.heap
          /\ snapshots' = StoreSnapshot(snapshots, snapshot_id, cp.ref)
          /\ threads' = [threads EXCEPT ![t] =
                            [pc |-> "stored", op |-> "log_change", df |-> @.df,
                             entry |-> [id |-> @.entry.id,
                                        timestamp |-> @.entry.timestamp,
                                        action |-> @.entry.action,
                                        description |-> @.entry.description,
                                        snapshot_id |-> snapshot_id]]]
    /\ uuidCount' = uuidCount + 1
    /\ UNCHANGED <<MAIN_DF, HISTORY_TRACKER, history, clock, held, calls, base>>

\* log_change: self.history.append(entry), and the return of the id.
LogChangeAppend(t) ==
    /\ threads[t].pc = "stored"
    /\ history' = AppendEntry(history, threads[t].entry)
    /\ calls' = Append(calls, [id |-> threads[t].entry.id,
                               table |-> ContentOf(heap, threads[t].df)])
    /\ threads' = [threads EXCEPT ![t].pc = "done"]
    /\ UNCHANGED <<MAIN_DF, HISTORY_TRACKER, heap, snapshots, uuidCount, clock, held,
                   base>>

\* clear_history: self.history = []
ClearHistoryEntries(t) ==
    /\ threads[t].pc = "idle"
    /\ history' = <<>>
    /\ calls' = <<>>
    /\ base' = 0
    /\ threads' = [threads EXCEPT ![t] = [pc |-> "entries", op |-> "clear_history",
                                          df |-> NoneRef]]
    /\ UNCHANGED <<MAIN_DF, HISTORY_TRACKER, heap, snapshots, uuidCount, clock, held>>

\* clear_history: self.snapshots = {}
ClearHistorySnapshots(t) ==
    /\ threads[t].pc = "entries"
    /\ snapshots' = EmptyDict
    /\ threads' = [threads EXCEPT ![t].pc = "done"]
    /\ UNCHANGED <<MAIN_DF, HISTORY_TRACKER, heap, history, uuidCount, clock, held,
                   calls, base>>

\* Every thread makes one call of the tracker; the steps of the threads
\* interleave.
NextTrackerThreads ==
    \E t \in Threads :
        \/ LogChangeEntry(t, MAIN_DF)
        \/ LogChangeEntry(t, NoneRef)
        \/ LogChangeStore(t)
        \/ LogChangeAppend(t)
        \/ ClearHistoryEntries(t)
        \/ ClearHistorySnapshots(t)

SpecTrackerThreads == InitThreads /\ [][NextTrackerThreads]_vars

\* ------------------------------------------------------------------ faults
\* tracker.log_change("Edit", "change", t) when the copy of t raises.
LogChangeCopyRaises(t) ==
    /\ t # NoneRef
    /\ Serve(log_change_copyRaises(St, "Edit", "change", t))

\* Requests and tracker calls in a process where a copy can fail.
NextFaults ==
    \/ \E b \in Bodies : Serve(upload_chunked_file(St, TRUE, b))
    \/ \E b \in Bodies : Serve(edit_cell(St, b))
    \/ LogChange(MAIN_DF)
    \/ LogChangeCopyRaises(MAIN_DF)
    \/ \E id \in RequestIds : Serve(revert_to_history_version(St, id))
    \/ \E id \in RequestIds : Serve(revert_to_history_version_copyRaises(St, id))
    \/ \E b \in Bodies : Serve(load_session(St, b))
    \/ \E b \in Bodies : Serve(load_session_copyRaises(St, b))

SpecFaults == Init /\ [][NextFaults]_vars

\* ------------------------------------------------------------------ claims
\* a is an initial portion of b.
IsPrefix(a, b) == Len(a) <= Len(b) /\ SubSeq(b, 1, Len(a)) = a

\* The newest entry of a ledger.
Newest(h) == h[Len(h)]

\* C1: for every log_change call that was given a table, as long as the
\* ledger has not been reset since, revert_to_version with the id the call
\* returned yields a table whose content is the content the table had at
\* the moment of the call, whatever was logged, edited, replaced or
\* reverted afterwards.
C1_RevertYieldsLoggedContent ==
    \A i \in 1..Len(calls) :
        calls[i].table # NoneRef =>
            LET r == revert_to_version(St, calls[i].id)
            IN  /\ r.ret # NoneRef
                /\ ContentOf(r.st.heap, r.ret) = calls[i].table

\* A table was logged, another change was logged after it, and the current
\* table has since been given another content.
C1_Witness ==
    \E i \in 1..Len(calls) :
        /\ calls[i].table # NoneRef
        /\ i < Len(calls)
        /\ MAIN_DF # NoneRef
        /\ heap[MAIN_DF] # calls[i].table
        /\ ContentOf(revert_to_version(St, calls[i].id).st.heap,
                     revert_to_version(St, calls[i].id).ret) = calls[i].table

\* C2: after N log_change calls on a tracker that started empty (or was
\* last reset to a ledger of base entries), get_history holds exactly N
\* more entries, the i-th of them carries the id the i-th call returned,
\* in call order, and the ids of the ledger are pairwise different.
C2_OneEntryPerCallInOrder ==
    /\ Len(get_history(St)) = base + Len(calls)
    /\ \A i \in 1..Len(calls) : get_history(St)[base + i].id = calls[i].id
    /\ \A i, j \in 1..Len(get_history(St)) :
            i # j => get_history(St)[i].id # get_history(St)[j].id

\* Three calls on a tracker that started empty, with and without a table.
C2_Witness ==
    /\ base = 0
    /\ Len(calls) >= 3
    /\ \E i, j \in 1..Len(calls) : calls[i].table # NoneRef /\ calls[j].table = NoneRef

\* C3: a revert the route answers with 200 leaves the N entries the ledger
\* had as they were and in the same order, appends exactly one entry whose
\* action is "Revert" and whose id and snapshot_id are new, and stores
\* under that snapshot_id a table whose content is the content of the
\* table that is current after the revert.
C3_RevertAppendsRevertEntry ==
    \A id \in AllIds :
        LET r == revert_to_history_version(St, id)
            h == get_history(r.st)
            e == Newest(h)
        IN  r.status = 200 =>
                /\ Len(h) = Len(history) + 1
                /\ SubSeq(h, 1, Len(history)) = history
                /\ e.action = "Revert"
                /\ e.id \notin Ids(history)
                /\ HasSnapshotId(e)
                /\ e.snapshot_id \notin DOMAIN snapshots
                /\ get_snapshot(r.st, e.snapshot_id) # NoneRef
                /\ r.st.MAIN_DF # NoneRef
                /\ ContentOf(r.st.heap, get_snapshot(r.st, e.snapshot_id))
                       = ContentOf(r.st.heap, r.st.MAIN_DF)
                /\ \A k \in DOMAIN snapshots :
                       ContentOf(r.st.heap, r.st.snapshots[k]) = heap[snapshots[k]]

\* The route has just reverted to an earlier entry whose table differs from
\* the one that was current: the newest entry is a "Revert" entry.
C3_Witness ==
    /\ Len(history) >= 3
    /\ Newest(history).action = "Revert"
    /\ history[Len(history) - 1].action # "Revert"
    /\ HasSnapshotId(history[Len(history) - 1])
    /\ HasSnapshotId(Newest(history))
    /\ get_snapshot(St, history[Len(history) - 1].snapshot_id) # NoneRef
    /\ heap[get_snapshot(St, Newest(history).snapshot_id)] = heap[MAIN_DF]
    /\ heap[get_snapshot(St, history[Len(history) - 1].snapshot_id)] # heap[MAIN_DF]

\* C4: after a revert the route answers with 200, a revert to the id of the
\* newest entry (the "Revert" entry just appended) is answered with 200
\* too and leaves the content of the current table as it was.
C4_RevertToNewestKeepsTable ==
    \A id \in AllIds :
        LET r1 == revert_to_history_version(St, id)
            s1 == Collect(r1.st)
            r2 == revert_to_history_version(s1, Newest(get_history(s1)).id)
        IN  r1.status = 200 =>
                /\ r2.status = 200
                /\ ContentOf(r2.st.heap, r2.st.MAIN_DF) = ContentOf(s1.heap, s1.MAIN_DF)

\* Two reverts in a row: to a logged table, then to the "Revert" entry the
\* first one appended; the current table has the content of all three.
C4_Witness ==
    /\ Len(history) >= 3
    /\ Newest(history).action = "Revert"
    /\ history[Len(history) - 1].action = "Revert"
    /\ history[Len(history) - 2].action # "Revert"
    /\ HasSnapshotId(history[Len(history) - 2])
    /\ get_snapshot(St, history[Len(history) - 2].snapshot_id) # NoneRef
    /\ heap[get_snapshot(St, history[Len(history) - 2].snapshot_id)] = heap[MAIN_DF]
    /\ heap[get_snapshot(St, history[Len(history) - 1].snapshot_id)] = heap[MAIN_DF]
    /\ heap[get_snapshot(St, Newest(history).snapshot_id)] = heap[MAIN_DF]

\* C5: when a client changes, in place, a table that revert_to_version or
\* get_snapshot returned to it, the content of every stored snapshot stays
\* what it was, so a later revert_to_version or get_snapshot for the same
\* id returns the original content.
C5_MutatingReturnedTableKeepsSnapshots ==
    [][(\E c \in Contents : MutateHeld(c)) =>
          /\ DOMAIN snapshots' = DOMAIN snapshots
          /\ \A k \in DOMAIN snapshots :
                 ContentOf(heap', get_snapshot(St', k)) = ContentOf(heap, get_snapshot(St, k))
          /\ \A id \in Ids(history) :
                 ContentOf(revert_to_version(St', id).st.heap, revert_to_version(St', id).ret)
                     = ContentOf(revert_to_version(St, id).st.heap, revert_to_version(St, id).ret)]_vars

\* C6: a clear_history call leaves get_history empty and the snapshot store
\* empty, and after it revert_to_version returns None for every id, those
\* of the entries the ledger had before the call among them.
C6_ClearEmptiesLedgerAndStore ==
    [][ClearHistory =>
          /\ get_history(St') = <<>>
          /\ DOMAIN snapshots' = {}
          /\ \A id \in AllIds : revert_to_version(St', id).ret = NoneRef]_vars

\* The ledger and the store are empty after entries with snapshots were
\* logged: the ids issued before no longer name anything.
C6_Witness ==
    /\ history = <<>>
    /\ DOMAIN snapshots = {}
    /\ calls = <<>>
    /\ base = 0
    /\ uuidCount >= 4
    /\ \A id \in 1..uuidCount : revert_to_version(St, id).ret = NoneRef

\* C7: a revert for a non-empty id that no entry of the ledger carries is
\* declined: revert_to_version returns None, the route answers 404, makes
\* no tracker call and leaves the ledger, the snapshot store and the
\* current table as they were.
C7_UnknownIdIsDeclined ==
    \A id \in AllIds \ ({NoneRef} \cup Ids(history)) :
        LET r == revert_to_history_version(St, id)
        IN  /\ revert_to_version(St, id).ret = NoneRef
            /\ r.status = 404
            /\ r.trace = <<>>
            /\ r.st = St

\* A tracker is configured, a table is loaded, the ledger holds an entry
\* one can revert to, and an id issued earlier names no entry any more.
C7_Witness ==
    /\ HISTORY_TRACKER = "tracker"
    /\ MAIN_DF # NoneRef
    /\ \E id \in Ids(history) : revert_to_version(St, id).ret # NoneRef
    /\ \E id \in 1..uuidCount :
            /\ id \notin Ids(history)
            /\ id \notin SnapshotIds
            /\ revert_to_history_version(St, id).status = 404

\* C8 as stated: in every reachable state every snapshot_id an entry of the
\* ledger carries resolves to a stored snapshot.
C8_EverySnapshotIdResolves ==
    \A i \in 1..Len(history) :
        HasSnapshotId(history[i]) =>
            get_snapshot(St, history[i].snapshot_id) # NoneRef

\* C8: the snapshot_id of every entry logged since the ledger was last
\* cleared or imported resolves to a stored snapshot, which holds the
\* content logged and is stored under no other id of the ledger; the
\* snapshot_id of an entry that import_history brought in resolves to
\* nothing, because import_history empties the snapshot store.
C8_LoggedSnapshotIdsResolve ==
    /\ \A i \in 1..Len(history) :
          HasSnapshotId(history[i]) =>
              (get_snapshot(St, history[i].snapshot_id) # NoneRef <=> i > base)
    /\ \A i \in 1..Len(calls) :
          calls[i].table # NoneRef =>
              /\ HasSnapshotId(history[base + i])
              /\ ContentOf(heap, get_snapshot(St, history[base + i].snapshot_id))
                     = calls[i].table
    /\ \A i, j \in 1..Len(history) :
          (i # j /\ HasSnapshotId(history[i]) /\ HasSnapshotId(history[j])) =>
              history[i].snapshot_id # history[j].snapshot_id

\* An imported entry whose snapshot_id resolves to nothing, followed by an
\* entry logged after the import whose snapshot_id resolves.
C8_Witness ==
    /\ base >= 1
    /\ HasSnapshotId(history[1])
    /\ get_snapshot(St, history[1].snapshot_id) = NoneRef
    /\ Len(history) > base
    /\ HasSnapshotId(Newest(history))
    /\ get_snapshot(St, Newest(history).snapshot_id) # NoneRef

\* A step that calls clear_history: the tracker call, or a session load
\* with a tracker configured.
ClearsHistory ==
    \/ ClearHistory
    \/ /\ HISTORY_TRACKER = "tracker"
       /\ \E b \in Bodies : b.outcome = "ok" /\ Serve(load_session(St, b))

\* A step that calls import_history.
ImportsHistory == \E d \in ImportInputs(St) : ImportHistory(d)

\* C9 as stated: across every step the ledger before the step is an
\* initial portion of the ledger after it, unless the step calls
\* clear_history.
C9_AppendOnlyExceptClear ==
    [][IsPrefix(history, history') \/ ClearsHistory]_vars

\* C9: across every step the ledger before the step is an initial portion
\* of the ledger after it, entry for entry with the same id, timestamp,
\* action, description and snapshot_id, unless the step calls clear_history
\* or import_history; import_history replaces the ledger by the list it is
\* given.
C9_AppendOnlyExceptClearAndImport ==
    [][IsPrefix(history, history') \/ ClearsHistory \/ ImportsHistory]_vars

\* A ledger that grew by tracker calls and by a revert of the route.
C9_Witness ==
    /\ base = 0
    /\ Len(history) >= 3
    /\ Len(calls) = Len(history)
    /\ \E i \in 2..Len(history) : history[i].action = "Revert"
    /\ \E i \in 1..Len(history) : ~HasSnapshotId(history[i])

\* What the routes that change the current table answer to the requests
\* with body b.
MutatingResponses(st, b) ==
    {handle_missing_values(st, b), remove_duplicates(st, b), handle_outliers(st, b),
     string_operations(st, b), find_and_replace(st, b), validate_emails(st, b),
     sort_data(st, b), group_by_data(st, b), pivot_data(st, b),
     add_calculated_column(st, b), edit_cell(st, b)}

\* C10: with a tracker configured, every request of a cleaning, transform
\* or edit-cell route that is answered 200 makes the ledger one entry
\* longer, and the snapshot of the new entry has the content of the table
\* that is current after the request.
C10_MutationsAreLogged ==
    HISTORY_TRACKER = "tracker" =>
        \A b \in Bodies : \A r \in MutatingResponses(St, b) :
            r.status = 200 =>
                /\ Len(get_history(r.st)) = Len(history) + 1
                /\ SubSeq(get_history(r.st), 1, Len(history)) = history
                /\ HasSnapshotId(Newest(get_history(r.st)))
                /\ ContentOf(r.st.heap,
                             get_snapshot(r.st, Newest(get_history(r.st)).snapshot_id))
                       = ContentOf(r.st.heap, r.st.MAIN_DF)

\* C11: log_change called without a table succeeds: it returns an id no
\* entry carried and no token had, appends exactly one entry, which carries
\* that id and no snapshot_id, after the entries the ledger had, and leaves
\* the snapshot store and the stored tables as they were.
C11_LogWithoutTable ==
    LET r == log_change(St, "Edit", "change", NoneRef)
        h == get_history(r.st)
    IN  /\ Len(h) = Len(history) + 1
        /\ SubSeq(h, 1, Len(history)) = history
        /\ Newest(h).id = r.ret
        /\ r.ret \notin Ids(history) \cup (1..uuidCount)
        /\ ~HasSnapshotId(Newest(h))
        /\ r.st.snapshots = snapshots
        /\ r.st.heap = heap

\* The newest entry was logged without a table, after entries with
\* snapshots.
C11_Witness ==
    /\ Len(calls) >= 2
    /\ calls[Len(calls)].table = NoneRef
    /\ Newest(history).id = calls[Len(calls)].id
    /\ ~HasSnapshotId(Newest(history))
    /\ DOMAIN snapshots # {}

\* C12: for the id of an entry of the ledger that has no snapshot_id,
\* revert_to_version returns None and changes nothing, and the revert route
\* answers 404, installs no table and makes no tracker call.
C12_EntryWithoutSnapshotIsDeclined ==
    \A i \in 1..Len(history) :
        ~HasSnapshotId(history[i]) =>
            LET v == revert_to_version(St, history[i].id)
                r == revert_to_history_version(St, history[i].id)
            IN  /\ v.ret = NoneRef
                /\ v.st = St
                /\ r.status = 404
                /\ r.trace = <<>>
                /\ r.st = St

\* A tracker is configured, a table is loaded, and the ledger holds an
\* entry without snapshot_id next to one whose snapshot can be reverted to.
C12_Witness ==
    /\ HISTORY_TRACKER = "tracker"
    /\ MAIN_DF # NoneRef
    /\ \E i, j \in 1..Len(history) :
          /\ ~HasSnapshotId(history[i])
          /\ HasSnapshotId(history[j])
          /\ revert_to_version(St, history[j].id).ret # NoneRef
          /\ revert_to_history_version(St, history[i].id).status = 404

\* C13: revert_to_version, whether it returns a table or None, leaves the
\* current table, the ledger, the snapshot store and every table that
\* exists as they were and makes no logging call; a table it returns is a
\* new object.
C13_RevertToVersionIsPure ==
    \A id \in AllIds :
        LET v == revert_to_version(St, id)
        IN  /\ v.st.MAIN_DF = MAIN_DF
            /\ get_history(v.st) = history
            /\ v.st.snapshots = snapshots
            /\ \A o \in DOMAIN heap : o \in DOMAIN v.st.heap /\ v.st.heap[o] = heap[o]
            /\ v.trace = <<>>
            /\ v.ret # NoneRef => v.ret \notin DOMAIN heap
            /\ v.ret = NoneRef => v.st = St

\* One id reverts to a table whose content is not that of the current
\* table, another id is answered None.
C13_Witness ==
    /\ MAIN_DF # NoneRef
    /\ \E id \in Ids(history) :
          LET v == revert_to_version(St, id)
          IN  v.ret # NoneRef /\ v.st.heap[v.ret] # heap[MAIN_DF]
    /\ \E id \in Ids(history) : revert_to_version(St, id).ret = NoneRef

\* Every id that revert_to_version answers with a table before a step is
\* answered with a table after it.
TargetsStayValid ==
    \A id \in Ids(history) :
        revert_to_version(St, id).ret # NoneRef => revert_to_version(St', id).ret # NoneRef

\* Every entry logged with a table since the ledger was last cleared or
\* imported is answered with a table.
LoggedTargetsValid ==
    \A i \in 1..Len(calls) :
        calls[i].table # NoneRef => revert_to_version(St, calls[i].id).ret # NoneRef

\* C14 as stated: an entry that revert_to_version answers with a table is
\* answered with a table after every step that changes the ledger or the
\* snapshot store, unless the step calls clear_history.
C14_TargetsValidUntilClear ==
    [][UNCHANGED <<history, snapshots>> \/ TargetsStayValid \/ ClearsHistory]_vars

\* C14: an entry logged with a table is a valid revert target from then on,
\* and an entry that revert_to_version answers with a table is answered
\* with a table after every later log_change, revert and route request
\* that changes the ledger or the snapshot store, reverts to the entry
\* itself among them, until a step calls clear_history
\* or import_history; import_history empties the snapshot store, so the
\* entries it installs are answered None.
C14_TargetsValidUntilClearOrImport ==
    [][\/ UNCHANGED <<history, snapshots>>
       \/ LoggedTargetsValid' /\ TargetsStayValid
       \/ ClearsHistory
       \/ ImportsHistory]_vars

\* The oldest entry is still a revert target after a revert to it and
\* after later changes were logged.
C14_Witness ==
    /\ base = 0
    /\ Len(history) >= 3
    /\ HasSnapshotId(history[1])
    /\ revert_to_version(St, history[1].id).ret # NoneRef
    /\ \E i \in 2..(Len(history) - 1) :
          /\ history[i].action = "Revert"
          /\ heap[get_snapshot(St, history[i].snapshot_id)]
                 = heap[get_snapshot(St, history[1].snapshot_id)]

\* C15: requests handled at the same time are serialized: once all of them
\* are answered, the current table is what serving them one after the other,
\* in some order, leaves; the change of no request is lost.
C15_ConcurrentUpdatesSerialized ==
    (\A t \in Threads : threads[t].pc = "done") =>
        heap[MAIN_DF] \in SerialResults(Uploaded.heap[Uploaded.MAIN_DF], Threads)

\* C16: when the copy of the table raises inside log_change, the change is
\* still recorded, as one more entry without snapshot_id, and the caller
\* does not fail: log_change raises nothing, the revert route that found
\* its snapshot answers 200 and the session load answers 200 with a
\* "Session Load" entry in the ledger.
C16_FailedSnapshotStillLogged ==
    /\ MAIN_DF # NoneRef =>
          LET lc == log_change_copyRaises(St, "Edit", "change", MAIN_DF)
          IN  /\ ~lc.raised
              /\ Len(get_history(lc.st)) = Len(history) + 1
              /\ ~HasSnapshotId(Newest(get_history(lc.st)))
    /\ \A id \in RequestIds :
          revert_to_history_version(St, id).status = 200 =>
              LET r == revert_to_history_version_copyRaises(St, id)
              IN  /\ r.status = 200
                  /\ Len(get_history(r.st)) = Len(history) + 1
                  /\ Newest(get_history(r.st)).action = "Revert"
                  /\ ~HasSnapshotId(Newest(get_history(r.st)))
    /\ HISTORY_TRACKER = "tracker" =>
          \A b \in Bodies :
              b.outcome = "ok" =>
                  LET r == load_session_copyRaises(St, b)
                  IN  /\ r.status = 200
                      /\ Len(get_history(r.st)) = 1
                      /\ Newest(get_history(r.st)).action = "Session Load"
                      /\ ~HasSnapshotId(Newest(get_history(r.st)))

\* What the routes that need a loaded table answer to the requests with
\* body b: the routes that change the table, the export and the session
\* save.
TableResponses(st, b) ==
    MutatingResponses(st, b) \cup {export_data(st, b), save_session(st, b)}

\* C17: while no table is loaded, every request of the revert, cleaning,
\* transform, edit-cell, export and session-save routes is answered with
\* the error status 404, makes no tracker call and leaves the current
\* table, the ledger and the snapshot store as they were.
C17_NoTableIsDeclined ==
    MAIN_DF = NoneRef =>
        /\ \A b \in Bodies : \A r \in TableResponses(St, b) :
              r.status = 404 /\ r.st = St /\ r.trace = <<>>
        /\ \A id \in AllIds :
              LET r == revert_to_history_version(St, id)
              IN  r.status = 404 /\ r.st = St /\ r.trace = <<>>

\* No table is loaded, a tracker is configured, and the ledger holds an
\* entry already.
C17_Witness ==
    /\ MAIN_DF = NoneRef
    /\ HISTORY_TRACKER = "tracker"
    /\ Len(history) >= 1
    /\ \A b \in Bodies : handle_missing_values(St, b).status = 404
    /\ \A id \in Ids(history) : revert_to_history_version(St, id).status = 404

\* What the routes that install a table answer to the requests with body
\* b and id history_id.
InstallingResponses(st, b, history_id) ==
    MutatingResponses(st, b)
        \cup {upload_chunked_file(st, TRUE, b), load_session(st, b),
              revert_to_history_version(st, history_id)}

\* C18: the current table changes only by the installation of a new table
\* object: no request changes the content of the object that is installed
\* when it arrives, a request answered 200 by a route that changes the
\* table leaves a new object installed, and a request answered with an
\* error leaves the same object installed, with the content it had.
C18_TableReplacedNeverMutated ==
    MAIN_DF # NoneRef =>
        \A b \in Bodies : \A id \in RequestIds :
            \A r \in InstallingResponses(St, b, id) :
                /\ r.st.heap[MAIN_DF] = heap[MAIN_DF]
                /\ r.status # 200 => r.st.MAIN_DF = MAIN_DF
                /\ (r.status = 200 /\ r \in MutatingResponses(St, b)) =>
                       r.st.MAIN_DF \notin DOMAIN heap

\* The snapshot ids of the entries of h at the positions P.
SnapshotIdsAt(h, P) ==
    {h[i].snapshot_id : i \in {j \in P : HasSnapshotId(h[j])}}

\* C19 as stated: in every reachable state the ids of the snapshot store are
\* the snapshot_ids the entries of the ledger carry, and no two entries
\* carry the same snapshot_id.
C19_StoreMatchesLedger ==
    /\ DOMAIN snapshots = SnapshotIdsAt(history, 1..Len(history))
    /\ \A i, j \in 1..Len(history) :
          (i # j /\ HasSnapshotId(history[i]) /\ HasSnapshotId(history[j])) =>
              history[i].snapshot_id # history[j].snapshot_id

\* The ids of the snapshot store are the snapshot_ids of the entries logged
\* since the ledger was last cleared or imported, one snapshot per entry.
StoreMatchesLogged ==
    /\ DOMAIN snapshots = SnapshotIdsAt(history, (base + 1)..Len(history))
    /\ \A i, j \in (base + 1)..Len(history) :
          (i # j /\ HasSnapshotId(history[i]) /\ HasSnapshotId(history[j])) =>
              history[i].snapshot_id # history[j].snapshot_id
    /\ SnapshotIdsAt(history, 1..base) \cap DOMAIN snapshots = {}

\* C19: in every reachable state the ids of the snapshot store are the
\* snapshot_ids of the entries logged since the ledger was last cleared or
\* imported, no two of these entries carry the same snapshot_id, and the
\* snapshot_ids of imported entries name no stored snapshot; a step removes
\* a snapshot only if it calls clear_history or import_history, and then it
\* removes all the snapshots there were.
C19_StoreMatchesLoggedEntries ==
    [][/\ StoreMatchesLogged
       /\ StoreMatchesLogged'
       /\ \/ DOMAIN snapshots \subseteq DOMAIN snapshots'
          \/ /\ DOMAIN snapshots \cap DOMAIN snapshots' = {}
             /\ ClearsHistory \/ ImportsHistory]_vars

\* Imported entries with snapshot_ids that name nothing, followed by two
\* entries logged with a table, each with its stored snapshot.
C19_Witness ==
    /\ base >= 1
    /\ SnapshotIdsAt(history, 1..base) # {}
    /\ Cardinality(DOMAIN snapshots) >= 2
    /\ Cardinality(SnapshotIdsAt(history, (base + 1)..Len(history))) >= 2

\* C20: with a tracker configured, GET /history answers the entries of the
\* ledger from the newest to the oldest, the i-th of the answer being the
\* i-th from the end of get_history, and leaves the state as it was:
\* get_history after it returns the same entries, oldest first, in the
\* order of the log_change calls.
C20_ListingIsNewestFirstAndReadOnly ==
    HISTORY_TRACKER = "tracker" =>
        LET r == get_history_route(St)
            h == get_history(r.st)
        IN  /\ r.status = 200
            /\ Len(r.history) = Len(history)
            /\ \A i \in 1..Len(history) : r.history[i] = history[Len(history) + 1 - i]
            /\ r.st = St
            /\ h = history
            /\ \A i \in 1..Len(calls) : h[base + i].id = calls[i].id
            /\ \A i, j \in (base + 1)..Len(h) : i < j => h[i].timestamp < h[j].timestamp

\* A ledger of three entries or more, which differs from its reverse.
C20_Witness ==
    /\ HISTORY_TRACKER = "tracker"
    /\ Len(history) >= 3
    /\ base = 0
    /\ get_history_route(St).history # history
    /\ get_history_route(St).history[1] = Newest(history)

\* Every thread has finished its call or its request.
AllDone == \A t \in Threads : threads[t].pc = "done"

\* C21: ledger order and timestamp order agree, also when log_change calls
\* overlap: of any two entries, the one earlier in the ledger has a
\* timestamp not later than the other's.
C21_LedgerOrderIsTimestampOrder ==
    \A i \in 1..Len(history) : \A j \in 1..Len(history) :
        i < j => history[i].timestamp <= history[j].timestamp

\* C24: after a log_change with a table and a clear_history that ran
\* concurrently, every entry of the ledger that carries a snapshot_id
\* resolves to a stored snapshot.
C24_NoDanglingAfterConcurrentClear ==
    (/\ AllDone
     /\ \E t \in Threads : threads[t].op = "clear_history"
     /\ \E t \in Threads : threads[t].op = "log_change" /\ threads[t].df # NoneRef)
    => \A i \in 1..Len(history) :
           HasSnapshotId(history[i]) =>
               get_snapshot(St, history[i].snapshot_id) # NoneRef

\* C23: when two requests that log to the history (two reverts, or a revert
\* and a session load) were handled at the same time and both are answered,
\* the snapshot of the newest entry of the ledger is equal by content to
\* the current table.
C23_NewestSnapshotIsCurrentTable ==
    (/\ AllDone
     /\ \A t \in Threads : threads[t].op \in {"revert_to_history_version",
                                             "load_session"}
     /\ \E t \in Threads : threads[t].op = "revert_to_history_version")
    => /\ history # <<>>
       /\ HasSnapshotId(Newest(history))
       /\ get_snapshot(St, Newest(history).snapshot_id) # NoneRef
       /\ heap[get_snapshot(St, Newest(history).snapshot_id)] = heap[MAIN_DF]

\* C22: started with HISTORY_TRACKER = None, the application never gets a
\* tracker: no request assigns it, so GET /history answers the empty list
\* and POST /history/revert answers 404 and changes nothing, the current
\* table included, whatever id is asked for.
C22_TrackerStaysNone ==
    /\ HISTORY_TRACKER = "None"
    /\ get_history_route(St).status = 200
    /\ get_history_route(St).history = <<>>
    /\ \A id \in RequestIds :
          LET r == revert_to_history_version(St, id)
          IN  /\ r.status = 404
              /\ r.st = St
              /\ r.trace = <<>>

\* A table is loaded and a tracker object that the configuration does not
\* hold has an entry one could revert to.
C22_Witness ==
    /\ HISTORY_TRACKER = "None"
    /\ MAIN_DF # NoneRef
    /\ history # <<>>
    /\ revert_to_version(St, history[1].id).ret # NoneRef

\* C25: the current table object is never the same object as a stored
\* snapshot, so an edit of the current table in place (edit-cell) leaves
\* the store and the content of every stored snapshot as they were.
C25_CurrentTableIsNoSnapshot ==
    /\ \A k \in DOMAIN snapshots : snapshots[k] # MAIN_DF
    /\ \A b \in Bodies :
          LET r == edit_cell(St, b)
          IN  /\ r.st.snapshots = snapshots
              /\ \A k \in DOMAIN snapshots :
                    r.st.heap[snapshots[k]] = heap[snapshots[k]]

\* The revert route installed a table and logged it, and the table was
\* edited in place afterwards: it differs from the snapshot of the revert.
C25_Witness ==
    /\ MAIN_DF # NoneRef
    /\ history # <<>>
    /\ Newest(history).action = "Revert"
    /\ get_snapshot(St, Newest(history).snapshot_id) # NoneRef
    /\ heap[get_snapshot(St, Newest(history).snapshot_id)] # heap[MAIN_DF]

C27_UploadKeepsHistory ==
    \A b \in Bodies :
        LET r == upload_chunked_file(St, TRUE, b)
        IN  b.outcome = "ok" =>
                /\ r.status = 200
                /\ r.trace = <<>>
                /\ r.st.MAIN_DF # MAIN_DF
                /\ r.st.heap[r.st.MAIN_DF] = b.c
                /\ r.st.history = history
                /\ r.st.snapshots = snapshots
                /\ \A k \in DOMAIN snapshots : r.st.heap[snapshots[k]] = heap[snapshots[k]]
                /\ \A id \in Ids(history) :
                      LET before == revert_to_version(St, id)
                          after == revert_to_version(r.st, id)
                      IN  /\ (after.ret = NoneRef) = (before.ret = NoneRef)
                          /\ after.ret # NoneRef =>
                                after.st.heap[after.ret] = before.st.heap[before.ret]

\* A table was logged and another file was uploaded since: the newest entry
\* is a revert target whose snapshot differs from the current table.
C27_Witness ==
    /\ MAIN_DF # NoneRef
    /\ history # <<>>
    /\ calls # <<>>
    /\ Newest(history).action = "Edit"
    /\ revert_to_version(St, Newest(history).id).ret # NoneRef
    /\ heap[get_snapshot(St, Newest(history).snapshot_id)] # heap[MAIN_DF]
    /\ Newest(calls).table # heap[MAIN_DF]

\* C28: log_change is all-or-nothing: when it raises while it copies the
\* table it was given, the ledger and the snapshot store, and the tables
\* they refer to, are exactly as before the call: no entry was appended and
\* no snapshot stored.
C28_FailedLogChangeLeavesTrackerAsItWas ==
    \A t \in {MAIN_DF, held} \ {NoneRef} :
        LET lc == log_change_copyRaises(St, "Edit", "change", t)
        IN  /\ lc.raised
            /\ get_history(lc.st) = history
            /\ lc.st.snapshots = snapshots
            /\ lc.st.heap = heap
            /\ lc.st.MAIN_DF = MAIN_DF

\* A log_change of the current table raised: ids were drawn, and the ledger
\* of a tracker that nothing has cleared is empty.
C28_Witness ==
    /\ HISTORY_TRACKER = "None"
    /\ MAIN_DF # NoneRef
    /\ uuidCount >= 2
    /\ history = <<>>
    /\ snapshots = EmptyDict

\* C29: import_history(export_history()) keeps the sequence of the entries
\* (the same ids, order and snapshot_id fields) and empties the snapshot
\* store, so that afterwards revert_to_version finds no snapshot for any
\* entry id.
C29_ExportImportKeepsEntriesOnly ==
    LET r == import_history(St, export_history(St))
    IN  /\ get_history(r.st) = history
        /\ \A i \in 1..Len(history) :
              /\ get_history(r.st)[i].id = history[i].id
              /\ HasSnapshotId(get_history(r.st)[i]) = HasSnapshotId(history[i])
              /\ HasSnapshotId(history[i]) =>
                    get_history(r.st)[i].snapshot_id = history[i].snapshot_id
        /\ r.st.snapshots = EmptyDict
        /\ \A id \in Ids(history) : revert_to_version(r.st, id).ret = NoneRef

\* The tracker's own export was imported: the ledger holds entries the
\* tracker logged, with their snapshot_id, and the store is empty.
C29_Witness ==
    /\ Len(history) >= 2
    /\ base = Len(history)
    /\ \A i \in 1..Len(history) : history[i].id > 0
    /\ \E i \in 1..Len(history) : HasSnapshotId(history[i])
    /\ snapshots = EmptyDict
====
